---- MODULE Spec2Model ----
(***************************************************************************)
(* A model of pptr.dev's PPTRProduct._initializeAPILifespan (the "since"   *)
(* and "until" versions of API entities), of PPTRVersion's search index    *)
(* and of renderTokensWithMatches.                                         *)
(*                                                                         *)
(* JavaScript Maps are functions whose DOMAIN is the key set; strings that *)
(* are indexed by character (token texts) are sequences of one-character   *)
(* strings; DOM nodes are records.                                         *)
(***************************************************************************)
EXTENDS Integers, Sequences, FiniteSets, TLC

VARIABLES
  releases,   \* this._releases, newest first
  pc,         \* where the running function is
  i,          \* the loop index of _initializeAPILifespan
  matches,    \* renderTokensWithMatches: the matched offsets
  tokens,     \* renderTokensWithMatches: the tokens
  fragment,   \* renderTokensWithMatches: the child nodes of the returned fragment
  offset,     \* renderTokensWithMatches: the running offset
  t,          \* renderTokensWithMatches: the number of tokens handled
  result,     \* renderTokensWithMatches: the node built for the last token
  api,        \* PPTRVersion: this.api.classes
  searchItems, \* PPTRVersion: this._searchItems
  ci          \* PPTRVersion: the number of classes handled

renderVars == <<matches, tokens, fragment, offset, t, result>>

searchVars == <<api, searchItems, ci>>

vars == <<releases, pc, i, matches, tokens, fragment, offset, t, result,
          api, searchItems, ci>>

(***************************************************************************)
(* Bounds and input universes.                                             *)
(***************************************************************************)
NumReleases == 3

MaxTokens == 2

MaxClasses == 2

\* Names of the releases, newest first ('main' is unshifted to index 0).
ReleaseNames == <<"main", "v1.2.0", "v1.1.0", "v1.0.0", "v0.9.0">>

SymbolKinds == {"event", "method", "ns"}

(***************************************************************************)
(* Maps.                                                                   *)
(***************************************************************************)
EmptyMap == [k \in {} |-> ""]

MapSet(m, k, v) == [x \in (DOMAIN m) \cup {k} |-> IF x = k THEN v ELSE m[x]]

MapHas(m, k) == k \in DOMAIN m

(***************************************************************************)
(* Build phase: one release's headings -> its classesLifespan.             *)
(***************************************************************************)
\* A heading of api.md after the '###' filter, as the four regular
\* expressions classify it.
Title(kind, name) == [kind |-> kind, name |-> name]

NewClassOutline(className, releaseName) ==
  [name |-> className,
   since |-> releaseName,
   until |-> "",
   eventsSince |-> EmptyMap,
   methodsSince |-> EmptyMap,
   namespacesSince |-> EmptyMap,
   eventsUntil |-> EmptyMap,
   methodsUntil |-> EmptyMap,
   namespacesUntil |-> EmptyMap]

\* The scan's locals: classOutline (null when ~open), the release's map, and
\* whether a property of the null classOutline was read (a TypeError).
ScanStart ==
  [open |-> FALSE, classOutline |-> NewClassOutline("", ""),
   classesLifespan |-> EmptyMap, threw |-> FALSE]

SealOutline(st) ==
  IF st.open
    THEN MapSet(st.classesLifespan, st.classOutline.name, st.classOutline)
    ELSE st.classesLifespan

\* Mutant: a heading met before any class heading is skipped.
ScanTitleSkipOrphan(st, title, releaseName) ==
  CASE title.kind = "class" ->
         [st EXCEPT !.classesLifespan = SealOutline(st),
                    !.open = TRUE,
                    !.classOutline = NewClassOutline(title.name, releaseName)]
    [] title.kind = "event" ->
         IF ~st.open THEN st
         ELSE [st EXCEPT !.classOutline.eventsSince = MapSet(@, title.name, releaseName)]
    [] title.kind = "method" ->
         IF ~st.open THEN st
         ELSE [st EXCEPT !.classOutline.methodsSince = MapSet(@, title.name, releaseName)]
    [] title.kind = "ns" ->
         IF ~st.open THEN st
         ELSE [st EXCEPT !.classOutline.namespacesSince = MapSet(@, title.name, releaseName)]
    [] OTHER -> st

ScanTitle(st, title, releaseName) ==
  CASE title.kind = "class" ->
         [st EXCEPT !.classesLifespan = SealOutline(st),
                    !.open = TRUE,
                    !.classOutline = NewClassOutline(title.name, releaseName)]
    [] title.kind = "event" ->
         IF ~st.open THEN [st EXCEPT !.threw = TRUE]
         ELSE [st EXCEPT !.classOutline.eventsSince = MapSet(@, title.name, releaseName)]
    [] title.kind = "method" ->
         IF ~st.open THEN [st EXCEPT !.threw = TRUE]
         ELSE [st EXCEPT !.classOutline.methodsSince = MapSet(@, title.name, releaseName)]
    [] title.kind = "ns" ->
         IF ~st.open THEN [st EXCEPT !.threw = TRUE]
         ELSE [st EXCEPT !.classOutline.namespacesSince = MapSet(@, title.name, releaseName)]
    [] OTHER -> st

RECURSIVE ScanTitles(_, _, _, _)
ScanTitles(titles, k, releaseName, st) ==
  IF k > Len(titles) \/ st.threw
    THEN st
    ELSE ScanTitles(titles, k + 1, releaseName, ScanTitle(st, titles[k], releaseName))

\* Mutant: the class still open at the end of the scan is not stored.
ScanReleaseNoLastSeal(titles, releaseName) ==
  LET st == ScanTitles(titles, 1, releaseName, ScanStart)
  IN [threw |-> st.threw,
      classesLifespan |-> IF st.threw THEN EmptyMap ELSE st.classesLifespan]

\* The result of one iteration of the loop over this._releases.
ScanRelease(titles, releaseName) ==
  LET st == ScanTitles(titles, 1, releaseName, ScanStart)
  IN [threw |-> st.threw,
      classesLifespan |-> IF st.threw THEN EmptyMap ELSE SealOutline(st)]

(***************************************************************************)
(* Since propagation.                                                      *)
(***************************************************************************)
\* Mutant: the carried value is never written.
CarrySinceKeepOwn(own, previous) == own

\* Mutant: every entry of the previous release's map is written, also under
\* a key the release's own map does not have.
CarrySinceAll(own, previous) ==
  [n \in (DOMAIN own) \cup (DOMAIN previous) |->
     IF MapHas(previous, n) THEN previous[n] ELSE own[n]]

CarrySince(own, previous) ==
  [n \in DOMAIN own |-> IF MapHas(previous, n) THEN previous[n] ELSE own[n]]

\* Mutant: the class's own since is not carried.
SinceOutlineNoClass(classOutline, previousClassOutline) ==
  [classOutline EXCEPT
     !.eventsSince = CarrySince(@, previousClassOutline.eventsSince),
     !.methodsSince = CarrySince(@, previousClassOutline.methodsSince),
     !.namespacesSince = CarrySince(@, previousClassOutline.namespacesSince)]

\* Mutant: every symbol of the class takes the class's carried since.
SinceOutlineClassSince(classOutline, previousClassOutline) ==
  [classOutline EXCEPT
     !.since = previousClassOutline.since,
     !.eventsSince = [n \in DOMAIN @ |-> previousClassOutline.since],
     !.methodsSince = [n \in DOMAIN @ |-> previousClassOutline.since],
     !.namespacesSince = [n \in DOMAIN @ |-> previousClassOutline.since]]

SinceOutline(classOutline, previousClassOutline) ==
  [classOutline EXCEPT
     !.since = previousClassOutline.since,
     !.eventsSince = CarrySince(@, previousClassOutline.eventsSince),
     !.methodsSince = CarrySince(@, previousClassOutline.methodsSince),
     !.namespacesSince = CarrySince(@, previousClassOutline.namespacesSince)]

SinceRelease(release, previousRelease) ==
  [release EXCEPT !.classesLifespan =
     [className \in DOMAIN @ |->
        IF MapHas(previousRelease.classesLifespan, className)
          THEN SinceOutline(@[className], previousRelease.classesLifespan[className])
          ELSE @[className]]]

(***************************************************************************)
(* Until propagation.                                                      *)
(***************************************************************************)
\* Lines 262-267: every key already in the Until map is set to nextRelease.name.
OverwriteUntil(until, nextName) == [n \in DOMAIN until |-> nextName]

\* Mutant: the test of nextReleaseOutline's Since map is inverted.
ResolveUntilInverted(ownUntil, ownSince, nextUntil, nextSince, nextName) ==
  LET copied == {n \in DOMAIN ownSince : MapHas(nextUntil, n)}
      gone == {n \in DOMAIN ownSince : ~MapHas(nextUntil, n) /\ MapHas(nextSince, n)}
  IN [n \in (DOMAIN ownUntil) \cup copied \cup gone |->
        IF n \in copied THEN nextUntil[n]
        ELSE IF n \in gone THEN nextName
        ELSE ownUntil[n]]

\* Mutant: a symbol counts as gone from the newer release also when that
\* release's Since map dates it to the newer release itself.
ResolveUntilReadsSinceValue(ownUntil, ownSince, nextUntil, nextSince, nextName) ==
  LET copied == {n \in DOMAIN ownSince : MapHas(nextUntil, n)}
      gone == {n \in DOMAIN ownSince :
                 /\ ~MapHas(nextUntil, n)
                 /\ (~MapHas(nextSince, n) \/ nextSince[n] = nextName)}
  IN [n \in (DOMAIN ownUntil) \cup copied \cup gone |->
        IF n \in copied THEN nextUntil[n]
        ELSE IF n \in gone THEN nextName
        ELSE ownUntil[n]]

\* Mutant: every until of the newer release's entry is copied, also for a
\* symbol the release's own entry does not have.
ResolveUntilCopyAll(ownUntil, ownSince, nextUntil, nextSince, nextName) ==
  LET copied == DOMAIN nextUntil
      gone == {n \in DOMAIN ownSince : ~MapHas(nextUntil, n) /\ ~MapHas(nextSince, n)}
  IN [n \in (DOMAIN ownUntil) \cup copied \cup gone |->
        IF n \in copied THEN nextUntil[n]
        ELSE IF n \in gone THEN nextName
        ELSE ownUntil[n]]

\* Lines 271-288, for one of the three kinds.
ResolveUntil(ownUntil, ownSince, nextUntil, nextSince, nextName) ==
  LET copied == {n \in DOMAIN ownSince : MapHas(nextUntil, n)}
      gone == {n \in DOMAIN ownSince : ~MapHas(nextUntil, n) /\ ~MapHas(nextSince, n)}
  IN [n \in (DOMAIN ownUntil) \cup copied \cup gone |->
        IF n \in copied THEN nextUntil[n]
        ELSE IF n \in gone THEN nextName
        ELSE ownUntil[n]]

\* Mutant: the class's until is left as it is when the class is gone.
UntilOutlineAbsentUnset(classOutline, nextName) ==
  [classOutline EXCEPT
     !.eventsUntil = OverwriteUntil(@, nextName),
     !.methodsUntil = OverwriteUntil(@, nextName),
     !.namespacesUntil = OverwriteUntil(@, nextName)]

UntilOutlineAbsent(classOutline, nextName) ==
  [classOutline EXCEPT
     !.until = nextName,
     !.eventsUntil = OverwriteUntil(@, nextName),
     !.methodsUntil = OverwriteUntil(@, nextName),
     !.namespacesUntil = OverwriteUntil(@, nextName)]

\* Mutant: the class's until is the neighbour's name, not the neighbour's until.
UntilOutlinePresentNextName(classOutline, nextReleaseOutline, nextName) ==
  [classOutline EXCEPT
     !.until = nextName,
     !.eventsUntil = ResolveUntil(@, classOutline.eventsSince,
        nextReleaseOutline.eventsUntil, nextReleaseOutline.eventsSince, nextName),
     !.methodsUntil = ResolveUntil(@, classOutline.methodsSince,
        nextReleaseOutline.methodsUntil, nextReleaseOutline.methodsSince, nextName),
     !.namespacesUntil = ResolveUntil(@, classOutline.namespacesSince,
        nextReleaseOutline.namespacesUntil, nextReleaseOutline.namespacesSince, nextName)]

\* Mutant: the class's until is not taken from the newer release's entry.
UntilOutlinePresentKeepUntil(classOutline, nextReleaseOutline, nextName) ==
  [classOutline EXCEPT
     !.eventsUntil = ResolveUntil(@, classOutline.eventsSince,
        nextReleaseOutline.eventsUntil, nextReleaseOutline.eventsSince, nextName),
     !.methodsUntil = ResolveUntil(@, classOutline.methodsSince,
        nextReleaseOutline.methodsUntil, nextReleaseOutline.methodsSince, nextName),
     !.namespacesUntil = ResolveUntil(@, classOutline.namespacesSince,
        nextReleaseOutline.namespacesUntil, nextReleaseOutline.namespacesSince, nextName)]

UntilOutlinePresent(classOutline, nextReleaseOutline, nextName) ==
  [classOutline EXCEPT
     !.until = nextReleaseOutline.until,
     !.eventsUntil = ResolveUntil(@, classOutline.eventsSince,
        nextReleaseOutline.eventsUntil, nextReleaseOutline.eventsSince, nextName),
     !.methodsUntil = ResolveUntil(@, classOutline.methodsSince,
        nextReleaseOutline.methodsUntil, nextReleaseOutline.methodsSince, nextName),
     !.namespacesUntil = ResolveUntil(@, classOutline.namespacesSince,
        nextReleaseOutline.namespacesUntil, nextReleaseOutline.namespacesSince, nextName)]

UntilRelease(release, nextRelease) ==
  [release EXCEPT !.classesLifespan =
     [className \in DOMAIN @ |->
        IF ~MapHas(nextRelease.classesLifespan, className)
          THEN UntilOutlineAbsent(@[className], nextRelease.name)
          ELSE UntilOutlinePresent(@[className],
                 nextRelease.classesLifespan[className], nextRelease.name)]]

(***************************************************************************)
(* renderTokensWithMatches.  A text is a sequence of characters; a node is *)
(* a record: an element, a text node or a document fragment.               *)
(***************************************************************************)
Substring(text, from, to) == SubSeq(text, from + 1, to)

CreateTextNode(data) ==
  [nodeType |-> "text", tagName |-> "", data |-> data, childNodes |-> <<>>]

CreateElement(tagName) ==
  [nodeType |-> "element", tagName |-> tagName, data |-> <<>>, childNodes |-> <<>>]

CreateDocumentFragment ==
  [nodeType |-> "fragment", tagName |-> "", data |-> <<>>, childNodes |-> <<>>]

\* node.textContent = text: the children become one text node, or none for ''.
SetTextContent(node, text) ==
  [node EXCEPT !.childNodes = IF text = <<>> THEN <<>> ELSE <<CreateTextNode(text)>>]

\* parent.appendChild(node): a document fragment hands over its children.
AppendChild(childNodes, node) ==
  IF node.nodeType = "fragment"
    THEN childNodes \o node.childNodes
    ELSE Append(childNodes, node)

\* Mutant: the short circuit forgets the token's tag.
PlainNodeNoTag(token) == CreateTextNode(token.text)

\* Lines 601-607: the node of a token when there are no matches.
PlainNode(token) ==
  IF token.tagName # ""
    THEN SetTextContent(CreateElement(token.tagName), token.text)
    ELSE CreateTextNode(token.text)

\* Lines 624-631: the node of the run text[from..to).
RunNode(text, from, to, lastInsideHighlight) ==
  IF lastInsideHighlight
    THEN SetTextContent(CreateElement("search-highlight"), Substring(text, from, to))
    ELSE CreateTextNode(Substring(text, from, to))

\* Mutant: every position flushes the run before it.
RECURSIVE ScanTokenFlushEach(_, _, _, _, _, _, _)
ScanTokenFlushEach(text, off, matchesSet, to, from, lastInsideHighlight, res) ==
  IF to > Len(text)
    THEN res
    ELSE
      LET insideHighlight == (to + off) \in matchesSet
      IN IF from < to
           THEN ScanTokenFlushEach(text, off, matchesSet, to + 1, to, insideHighlight,
                  [res EXCEPT !.childNodes =
                     AppendChild(@, RunNode(text, from, to, lastInsideHighlight))])
           ELSE ScanTokenFlushEach(text, off, matchesSet, to + 1, from, insideHighlight, res)

\* Mutant: the loop stops at to < token.text.length, before the last flush.
RECURSIVE ScanTokenNoLastFlush(_, _, _, _, _, _, _)
ScanTokenNoLastFlush(text, off, matchesSet, to, from, lastInsideHighlight, res) ==
  IF to >= Len(text)
    THEN res
    ELSE
      LET insideHighlight == (to + off) \in matchesSet
      IN IF insideHighlight = lastInsideHighlight
           THEN ScanTokenNoLastFlush(text, off, matchesSet, to + 1, from,
                  lastInsideHighlight, res)
           ELSE IF from < to
             THEN ScanTokenNoLastFlush(text, off, matchesSet, to + 1, to, insideHighlight,
                    [res EXCEPT !.childNodes =
                       AppendChild(@, RunNode(text, from, to, lastInsideHighlight))])
             ELSE ScanTokenNoLastFlush(text, off, matchesSet, to + 1, from,
                    insideHighlight, res)

\* Mutant: a run's node is chosen by the position that ends it, not by the
\* run itself.
RECURSIVE ScanTokenRunByProbe(_, _, _, _, _, _, _)
ScanTokenRunByProbe(text, off, matchesSet, to, from, lastInsideHighlight, res) ==
  IF to > Len(text)
    THEN res
    ELSE
      LET insideHighlight == (to + off) \in matchesSet
      IN IF insideHighlight = lastInsideHighlight /\ to < Len(text)
           THEN ScanTokenRunByProbe(text, off, matchesSet, to + 1, from,
                  lastInsideHighlight, res)
           ELSE IF from < to
             THEN ScanTokenRunByProbe(text, off, matchesSet, to + 1, to, insideHighlight,
                    [res EXCEPT !.childNodes =
                       AppendChild(@, RunNode(text, from, to, insideHighlight))])
             ELSE ScanTokenRunByProbe(text, off, matchesSet, to + 1, from,
                    insideHighlight, res)

\* Mutant: the match set is probed with the offset inside the token.
RECURSIVE ScanTokenLocalOffset(_, _, _, _, _, _, _)
ScanTokenLocalOffset(text, off, matchesSet, to, from, lastInsideHighlight, res) ==
  IF to > Len(text)
    THEN res
    ELSE
      LET insideHighlight == to \in matchesSet
      IN IF insideHighlight = lastInsideHighlight /\ to < Len(text)
           THEN ScanTokenLocalOffset(text, off, matchesSet, to + 1, from,
                  lastInsideHighlight, res)
           ELSE IF from < to
             THEN ScanTokenLocalOffset(text, off, matchesSet, to + 1, to, insideHighlight,
                    [res EXCEPT !.childNodes =
                       AppendChild(@, RunNode(text, from, to, lastInsideHighlight))])
             ELSE ScanTokenLocalOffset(text, off, matchesSet, to + 1, from,
                    insideHighlight, res)

\* Lines 619-635: the loop over to, from the values of to, from,
\* lastInsideHighlight and result at the head of an iteration.
RECURSIVE ScanToken(_, _, _, _, _, _, _)
ScanToken(text, off, matchesSet, to, from, lastInsideHighlight, res) ==
  IF to > Len(text)
    THEN res
    ELSE
      LET insideHighlight == (to + off) \in matchesSet
      IN IF insideHighlight = lastInsideHighlight /\ to < Len(text)
           THEN ScanToken(text, off, matchesSet, to + 1, from, lastInsideHighlight, res)
           ELSE IF from < to
             THEN ScanToken(text, off, matchesSet, to + 1, to, insideHighlight,
                    [res EXCEPT !.childNodes =
                       AppendChild(@, RunNode(text, from, to, lastInsideHighlight))])
             ELSE ScanToken(text, off, matchesSet, to + 1, from, insideHighlight, res)

\* Lines 616-635: the result node of one token.
TokenResult(token, off, matchesSet) ==
  ScanToken(token.text, off, matchesSet, 0, 0, FALSE,
    IF token.tagName # "" THEN CreateElement(token.tagName) ELSE CreateDocumentFragment)

\* Mutant: offset is not advanced by the token's length.
OffsetAfterStuck(off, token) == off

\* Line 636.
OffsetAfter(off, token) == off + Len(token.text)

\* Lines 599-609: the short circuit, from token k (1-based) on.
RECURSIVE RenderPlainFrom(_, _, _)
RenderPlainFrom(toks, k, frag) ==
  IF k > Len(toks)
    THEN frag
    ELSE RenderPlainFrom(toks, k + 1, AppendChild(frag, PlainNode(toks[k])))

\* Lines 612-639: the scanning path, from token k (1-based) on.
RECURSIVE RenderScanFrom(_, _, _, _, _)
RenderScanFrom(toks, k, off, matchesSet, frag) ==
  IF k > Len(toks)
    THEN frag
    ELSE RenderScanFrom(toks, k + 1, OffsetAfter(off, toks[k]), matchesSet,
           AppendChild(frag, TokenResult(toks[k], off, matchesSet)))

\* The children of the fragment one call returns.
RenderTokensWithMatches(m, toks) ==
  IF m = {} THEN RenderPlainFrom(toks, 1, <<>>) ELSE RenderScanFrom(toks, 1, 0, m, <<>>)

(***************************************************************************)
(* Inputs of renderTokensWithMatches.                                      *)
(***************************************************************************)
TokenTexts == {<<>>, <<"a", "b">>, <<"c", "d", "e">>}

\* '' stands for a token without tagName.
TokenTags == {"", "search-item-api-method-name"}

Tokens == [text : TokenTexts, tagName : TokenTags]

RECURSIVE TextLength(_)
TextLength(toks) ==
  IF toks = <<>> THEN 0 ELSE Len(Head(toks).text) + TextLength(Tail(toks))

\* The offsets of the text, one below and one (the length) above.
Offsets(toks) == (-1)..TextLength(toks)

\* The search index, and the renderer, when another function is running.
SearchIdle ==
  /\ api = <<>>
  /\ searchItems = <<>>
  /\ ci = 0

RenderIdle ==
  /\ matches = {}
  /\ tokens = <<>>
  /\ fragment = <<>>
  /\ offset = 0
  /\ t = 0
  /\ result = CreateDocumentFragment

(***************************************************************************)
(* The state machine of renderTokensWithMatches: one action per iteration  *)
(* of its loop over tokens.  matches is the array as a set (the code reads *)
(* its length and builds a Set of it).                                     *)
(***************************************************************************)
InitRender ==
  /\ \E n \in 0..MaxTokens :
       \E toks \in [1..n -> Tokens] :
         /\ tokens = toks
         /\ matches \in SUBSET Offsets(toks)
         /\ pc = IF n = 0 THEN "rendered" ELSE "render"
  /\ fragment = <<>>
  /\ offset = 0
  /\ t = 0
  /\ result = CreateDocumentFragment
  /\ releases = <<>>
  /\ i = 0
  /\ SearchIdle

\* Lines 598-610: the short circuit for an empty matches array.
RenderPlainToken ==
  /\ pc = "render"
  /\ matches = {}
  /\ t < Len(tokens)
  /\ result' = PlainNode(tokens[t + 1])
  /\ fragment' = AppendChild(fragment, result')
  /\ t' = t + 1
  /\ pc' = IF t' = Len(tokens) THEN "rendered" ELSE "render"
  /\ UNCHANGED <<offset, matches, tokens, releases, i, searchVars>>

RenderToken ==
  /\ pc = "render"
  /\ matches # {}
  /\ t < Len(tokens)
  /\ result' = TokenResult(tokens[t + 1], offset, matches)
  /\ offset' = OffsetAfter(offset, tokens[t + 1])
  /\ fragment' = AppendChild(fragment, result')
  /\ t' = t + 1
  /\ pc' = IF t' = Len(tokens) THEN "rendered" ELSE "render"
  /\ UNCHANGED <<matches, tokens, releases, i, searchVars>>

NextRender == RenderPlainToken \/ RenderToken

SpecRender == InitRender /\ [][NextRender]_vars

(***************************************************************************)
(* The search index of PPTRVersion.  An API entry is a record naming its   *)
(* kind, its class and itself; a class lists its events, namespaces and    *)
(* methods by name, in the order of api.md.                                *)
(***************************************************************************)
ClassEntry(apiClass) == [kind |-> "class", apiClass |-> apiClass.name, name |-> apiClass.name]

MemberEntry(kind, apiClass, name) == [kind |-> kind, apiClass |-> apiClass.name, name |-> name]

\* A JavaScript string as the sequence of its characters.
Chars(str) ==
  CASE str = "Browser" -> <<"B", "r", "o", "w", "s", "e", "r">>
    [] str = "browser" -> <<"b", "r", "o", "w", "s", "e", "r">>
    [] str = "Page" -> <<"P", "a", "g", "e">>
    [] str = "page" -> <<"p", "a", "g", "e">>
    [] str = "Frame" -> <<"F", "r", "a", "m", "e">>
    [] str = "frame" -> <<"f", "r", "a", "m", "e">>
    [] str = "load" -> <<"l", "o", "a", "d">>
    [] str = "close" -> <<"c", "l", "o", "s", "e">>
    [] str = "mouse" -> <<"m", "o", "u", "s", "e">>
    [] str = "goto" -> <<"g", "o", "t", "o">>
    [] str = "url" -> <<"u", "r", "l">>
    [] str = "" -> <<>>

\* apiClass.loweredName, a property the class brings along with its name.
LoweredName(apiClass) ==
  CASE apiClass.name = "Browser" -> "browser"
    [] apiClass.name = "Page" -> "page"
    [] apiClass.name = "Frame" -> "frame"

\* apiMethod.args, a property the method brings along with its name.
MethodArgs(name) == IF name = "goto" THEN "url" ELSE ""

CreateForClass(apiClass) ==
  LET className == Chars(apiClass.name)
  IN  [apiEntry |-> ClassEntry(apiClass), iconTagName |-> "pptr-class-icon",
       text |-> className,
       titleTokens |-> <<[text |-> className, tagName |-> "search-item-api-method-name"]>>]

\* Mutant: the text of an event is built from the class name as written.
CreateForEventClassName(apiClass, name) ==
  LET className == Chars(LoweredName(apiClass))
  IN  [apiEntry |-> MemberEntry("event", apiClass, name), iconTagName |-> "pptr-event-icon",
       text |-> Chars(apiClass.name) \o <<".", "o", "n", "(", "'">> \o Chars(name) \o <<"'", ")">>,
       titleTokens |->
         <<[text |-> className \o <<".", "o", "n", "(">>, tagName |-> "search-item-api-method-class"],
           [text |-> <<"'">> \o Chars(name) \o <<"'">>, tagName |-> "search-item-api-method-name"],
           [text |-> <<")">>, tagName |-> "search-item-api-method-class"]>>]

CreateForEvent(apiClass, name) ==
  LET className == Chars(LoweredName(apiClass))
  IN  [apiEntry |-> MemberEntry("event", apiClass, name), iconTagName |-> "pptr-event-icon",
       text |-> className \o <<".", "o", "n", "(", "'">> \o Chars(name) \o <<"'", ")">>,
       titleTokens |->
         <<[text |-> className \o <<".", "o", "n", "(">>, tagName |-> "search-item-api-method-class"],
           [text |-> <<"'">> \o Chars(name) \o <<"'">>, tagName |-> "search-item-api-method-name"],
           [text |-> <<")">>, tagName |-> "search-item-api-method-class"]>>]

CreateForNamespace(apiClass, name) ==
  LET className == Chars(LoweredName(apiClass))
  IN  [apiEntry |-> MemberEntry("ns", apiClass, name), iconTagName |-> "pptr-ns-icon",
       text |-> className \o <<".">> \o Chars(name),
       titleTokens |->
         <<[text |-> className \o <<".">>, tagName |-> "search-item-api-method-class"],
           [text |-> Chars(name), tagName |-> "search-item-api-method-name"]>>]

\* Mutant: the name token of a method leaves the arguments out.
CreateForMethodNoArgs(apiClass, name) ==
  LET className == Chars(LoweredName(apiClass))
      args == Chars(MethodArgs(name))
  IN  [apiEntry |-> MemberEntry("method", apiClass, name), iconTagName |-> "pptr-method-icon",
       text |-> className \o <<".">> \o Chars(name) \o <<"(">> \o args \o <<")">>,
       titleTokens |->
         <<[text |-> className \o <<".">>, tagName |-> "search-item-api-method-class"],
           [text |-> Chars(name) \o <<"(", ")">>, tagName |-> "search-item-api-method-name"]>>]

CreateForMethod(apiClass, name) ==
  LET className == Chars(LoweredName(apiClass))
      args == Chars(MethodArgs(name))
  IN  [apiEntry |-> MemberEntry("method", apiClass, name), iconTagName |-> "pptr-method-icon",
       text |-> className \o <<".">> \o Chars(name) \o <<"(">> \o args \o <<")">>,
       titleTokens |->
         <<[text |-> className \o <<".">>, tagName |-> "search-item-api-method-class"],
           [text |-> Chars(name) \o <<"(">> \o args \o <<")">>, tagName |-> "search-item-api-method-name"]>>]

\* Mutant: the methods are pushed before the namespaces.
ClassItemsMethodsFirst(apiClass) ==
  <<CreateForClass(apiClass)>>
  \o [k \in 1..Len(apiClass.events) |-> CreateForEvent(apiClass, apiClass.events[k])]
  \o [k \in 1..Len(apiClass.methods) |-> CreateForMethod(apiClass, apiClass.methods[k])]
  \o [k \in 1..Len(apiClass.namespaces) |-> CreateForNamespace(apiClass, apiClass.namespaces[k])]

\* The items one iteration of the loop over this.api.classes pushes.
ClassItems(apiClass) ==
  <<CreateForClass(apiClass)>>
  \o [k \in 1..Len(apiClass.events) |-> CreateForEvent(apiClass, apiClass.events[k])]
  \o [k \in 1..Len(apiClass.namespaces) |-> CreateForNamespace(apiClass, apiClass.namespaces[k])]
  \o [k \in 1..Len(apiClass.methods) |-> CreateForMethod(apiClass, apiClass.methods[k])]

(***************************************************************************)
(* Inputs of the search index: the classes of one version.                 *)
(***************************************************************************)
ApiClassNames == {"Browser", "Page", "Frame"}

ApiEvents == {<<>>, <<"load">>, <<"load", "close">>, <<"close", "load">>}

ApiNamespaces == {<<>>, <<"mouse">>}

ApiMethods == {<<>>, <<"goto", "close">>}

\* Lists of classes with different names.
ApiClassLists(n) ==
  {cs \in [1..n -> [name : ApiClassNames, events : ApiEvents,
                    namespaces : ApiNamespaces, methods : ApiMethods]] :
     \A a, b \in 1..n : a # b => cs[a].name # cs[b].name}

(***************************************************************************)
(* The state machine of PPTRVersion's constructor: one action per          *)
(* iteration of its loop over this.api.classes.                            *)
(***************************************************************************)
InitSearch ==
  /\ \E n \in 0..MaxClasses :
       /\ api \in ApiClassLists(n)
       /\ pc = IF n = 0 THEN "indexed" ELSE "index"
  /\ searchItems = <<>>
  /\ ci = 0
  /\ releases = <<>>
  /\ i = 0
  /\ RenderIdle

IndexClass ==
  /\ pc = "index"
  /\ ci < Len(api)
  /\ searchItems' = searchItems \o ClassItems(api[ci + 1])
  /\ ci' = ci + 1
  /\ pc' = IF ci' = Len(api) THEN "indexed" ELSE "index"
  /\ UNCHANGED <<api, releases, i, renderVars>>

NextSearch == IndexClass

SpecSearch == InitSearch /\ [][NextSearch]_vars

(***************************************************************************)
(* Inputs: api.md heading lists.                                           *)
(***************************************************************************)
PageSymbols == {Title("event", "load"), Title("method", "close")}

\* The headings of a set of symbols, in a fixed document order.
SymbolTitles(symbols) ==
  (IF Title("event", "load") \in symbols THEN <<Title("event", "load")>> ELSE <<>>)
  \o (IF Title("method", "close") \in symbols THEN <<Title("method", "close")>> ELSE <<>>)

\* No class Page, or class Page with any of its symbols.
PageTitles ==
  {<<>>} \cup {<<Title("class", "Page")>> \o SymbolTitles(s) : s \in SUBSET PageSymbols}

\* No class Frame, or class Frame with a method named as Page's and a namespace.
FrameTitles ==
  {<<>>, <<Title("class", "Frame"), Title("method", "close"), Title("ns", "mouse")>>}

WellFormedTitles == {p \o f : p \in PageTitles, f \in FrameTitles}

\* A heading before any class heading.
MalformedTitles == {<<Title("method", "close"), Title("class", "Page")>>}

ApiTitles == WellFormedTitles \cup MalformedTitles

ClassNames == {"Page", "Frame"}

SymbolNames == {"load", "close", "mouse"}

(***************************************************************************)
(* The state machine of _initializeAPILifespan: one action per iteration   *)
(* of each of its three loops over this._releases.  i is the JavaScript    *)
(* (0-based) loop index; releases[i + 1] is this._releases[i].             *)
(***************************************************************************)
Release(name, apiTitles) ==
  [name |-> name, apiTitles |-> apiTitles, classesLifespan |-> EmptyMap]

InitLifespan ==
  /\ \E n \in 1..NumReleases :
       \E texts \in [1..n -> ApiTitles] :
         releases = [k \in 1..n |-> Release(ReleaseNames[k], texts[k])]
  /\ pc = "build"
  /\ i = 0
  /\ RenderIdle
  /\ SearchIdle

\* Where control goes when the build loop has handled this._releases[i - 1].
AfterBuild(n, next) ==
  IF next < n THEN <<"build", next>>
  ELSE IF n - 2 >= 0 THEN <<"since", n - 2>>
  ELSE <<"done", 0>>

AfterSince(n, next) ==
  IF next >= 0 THEN <<"since", next>>
  ELSE IF 0 < n - 1 THEN <<"until", 0>>
  ELSE <<"done", 0>>

AfterUntil(n, next) ==
  IF next < n - 1 THEN <<"until", next>> ELSE <<"done", 0>>

BuildRelease ==
  /\ pc = "build"
  /\ UNCHANGED <<renderVars, searchVars>>
  /\ i < Len(releases)
  /\ LET release == releases[i + 1]
         scan == ScanRelease(release.apiTitles, release.name)
     IN /\ releases' = [releases EXCEPT ![i + 1].classesLifespan = scan.classesLifespan]
        /\ IF scan.threw
             THEN pc' = "threw" /\ i' = i
             ELSE /\ pc' = AfterBuild(Len(releases), i + 1)[1]
                  /\ i' = AfterBuild(Len(releases), i + 1)[2]

SinceStep ==
  /\ pc = "since"
  /\ UNCHANGED <<renderVars, searchVars>>
  /\ i >= 0
  /\ releases' = [releases EXCEPT ![i + 1] = SinceRelease(@, releases[i + 2])]
  /\ pc' = AfterSince(Len(releases), i - 1)[1]
  /\ i' = AfterSince(Len(releases), i - 1)[2]

UntilStep ==
  /\ pc = "until"
  /\ UNCHANGED <<renderVars, searchVars>>
  /\ i < Len(releases) - 1
  /\ releases' = [releases EXCEPT ![i + 2] = UntilRelease(@, releases[i + 1])]
  /\ pc' = AfterUntil(Len(releases), i + 1)[1]
  /\ i' = AfterUntil(Len(releases), i + 1)[2]

Init == InitLifespan

Next == BuildRelease \/ SinceStep \/ UntilStep

Spec == Init /\ [][Next]_vars

(***************************************************************************)
(* What the input says: the classes and symbols of release k (1-based,     *)
(* newest first), read off its headings.                                   *)
(***************************************************************************)
NumStored == Len(releases)

HasClass(k, C) ==
  \E j \in 1..Len(releases[k].apiTitles) : releases[k].apiTitles[j] = Title("class", C)

\* Heading (kind, s) occurs in the section opened by the heading of class C.
HasSymbol(k, C, kind, s) ==
  LET titles == releases[k].apiTitles
  IN \E j \in 1..Len(titles) :
       /\ titles[j] = Title(kind, s)
       /\ \E c \in 1..(j - 1) :
            /\ titles[c] = Title("class", C)
            /\ \A d \in (c + 1)..(j - 1) : titles[d].kind # "class"

\* The oldest release of the maximal run of adjacent releases that starts at k
\* and in all of which class C is present (C contains s).
ClassRunEnd(k, C) ==
  CHOOSE m \in k..NumStored :
    /\ \A j \in k..m : HasClass(j, C)
    /\ m = NumStored \/ ~HasClass(m + 1, C)

SymbolRunEnd(k, C, kind, s) ==
  CHOOSE m \in k..NumStored :
    /\ \A j \in k..m : HasSymbol(j, C, kind, s)
    /\ m = NumStored \/ ~HasSymbol(m + 1, C, kind, s)

\* The releases newer than k in which C does not contain s; in which C is absent.
SymbolGoneIn(k, C, kind, s) == {u \in 1..(k - 1) : ~HasSymbol(u, C, kind, s)}

ClassGoneIn(k, C) == {u \in 1..(k - 1) : ~HasClass(u, C)}

Newest(S) == CHOOSE u \in S : \A v \in S : v <= u

Outline(k, C) == releases[k].classesLifespan[C]

SinceOf(classOutline, kind) ==
  CASE kind = "event" -> classOutline.eventsSince
    [] kind = "method" -> classOutline.methodsSince
    [] kind = "ns" -> classOutline.namespacesSince

UntilOf(classOutline, kind) ==
  CASE kind = "event" -> classOutline.eventsUntil
    [] kind = "method" -> classOutline.methodsUntil
    [] kind = "ns" -> classOutline.namespacesUntil

Indexed == pc = "done"

\* C1: after indexing, the since of every symbol s of class C in release R is
\* the name of the oldest release of the maximal run of adjacent releases
\* ending at R in all of which C contains s, and C.since is the oldest release
\* of the maximal adjacent run ending at R in which C is present.
C1_SinceIsOldestOfRun ==
  Indexed =>
    \A k \in 1..NumStored : \A C \in ClassNames :
      HasClass(k, C) =>
        /\ MapHas(releases[k].classesLifespan, C)
        /\ Outline(k, C).since = releases[ClassRunEnd(k, C)].name
        /\ \A kind \in SymbolKinds : \A s \in SymbolNames :
             HasSymbol(k, C, kind, s) =>
               /\ MapHas(SinceOf(Outline(k, C), kind), s)
               /\ SinceOf(Outline(k, C), kind)[s]
                    = releases[SymbolRunEnd(k, C, kind, s)].name

\* A symbol whose run spans two releases and stops short of the oldest one,
\* although its class goes on.
C1_Witness ==
  /\ Indexed
  /\ NumStored = 3
  /\ \E C \in ClassNames : \E kind \in SymbolKinds : \E s \in SymbolNames :
       /\ HasSymbol(1, C, kind, s)
       /\ SymbolRunEnd(1, C, kind, s) = 2
       /\ ClassRunEnd(1, C) = 3
       /\ SinceOf(Outline(1, C), kind)[s] = releases[2].name

\* C2: a resolved until U of symbol s in release R names a release newer than
\* R in which C does not contain s, and C contains s in every release from the
\* one next to U (on R's side) down to R.
C2_UntilIsFirstAbsence ==
  Indexed =>
    \A k \in 1..NumStored : \A C \in DOMAIN releases[k].classesLifespan :
      \A kind \in SymbolKinds : \A s \in DOMAIN UntilOf(Outline(k, C), kind) :
        \E u \in 1..(k - 1) :
          /\ UntilOf(Outline(k, C), kind)[s] = releases[u].name
          /\ ~HasSymbol(u, C, kind, s)
          /\ HasSymbol(u + 1, C, kind, s)
          /\ \A j \in (u + 1)..k : HasSymbol(j, C, kind, s)

\* An until copied from the newer neighbour: resolved two releases away.
C2_Witness ==
  /\ Indexed
  /\ NumStored = 3
  /\ \E C \in ClassNames : \E kind \in SymbolKinds : \E s \in SymbolNames :
       /\ HasSymbol(3, C, kind, s)
       /\ MapHas(UntilOf(Outline(3, C), kind), s)
       /\ UntilOf(Outline(3, C), kind)[s] = releases[1].name

\* C3: a symbol s of C present in every release has since = the oldest release
\* and no until in every release's entry, and C.since is the oldest release
\* and C.until is '' in every release.
C3_AlwaysPresent ==
  Indexed =>
    \A C \in ClassNames : \A kind \in SymbolKinds : \A s \in SymbolNames :
      (\A k \in 1..NumStored : HasSymbol(k, C, kind, s)) =>
        \A k \in 1..NumStored :
          /\ SinceOf(Outline(k, C), kind)[s] = releases[NumStored].name
          /\ ~MapHas(UntilOf(Outline(k, C), kind), s)
          /\ Outline(k, C).since = releases[NumStored].name
          /\ Outline(k, C).until = ""

C3_Witness ==
  /\ Indexed
  /\ NumStored = 3
  /\ \E C \in ClassNames : \E kind \in SymbolKinds : \E s \in SymbolNames :
       /\ \A k \in 1..NumStored : HasSymbol(k, C, kind, s)
       /\ SinceOf(Outline(1, C), kind)[s] = releases[3].name

\* C4: class C is present in three or more consecutive releases, and s is in
\* C in the older release o, missing from the next newer one (the gap) and back
\* in a newer release n, the first after the gap.  Then o's entry has since(s)
\* within o's own run and until(s) = the gap's name, and n's entry has
\* since(s) = n's own name, with until(s) unresolved if s stays to the newest.
C4_GapReintroduction ==
  Indexed =>
    \A C \in ClassNames : \A kind \in SymbolKinds : \A s \in SymbolNames :
      \A o \in 1..NumStored : \A n \in 1..(o - 2) :
        (/\ \A j \in n..o : HasClass(j, C)
         /\ HasSymbol(o, C, kind, s)
         /\ HasSymbol(n, C, kind, s)
         /\ \A j \in (n + 1)..(o - 1) : ~HasSymbol(j, C, kind, s))
        =>
        /\ UntilOf(Outline(o, C), kind)[s] = releases[o - 1].name
        /\ \E m \in o..NumStored :
             /\ SinceOf(Outline(o, C), kind)[s] = releases[m].name
             /\ \A j \in o..m : HasSymbol(j, C, kind, s)
        /\ SinceOf(Outline(n, C), kind)[s] = releases[n].name
        /\ (\A j \in 1..n : HasSymbol(j, C, kind, s))
             => ~MapHas(UntilOf(Outline(n, C), kind), s)

\* The scenario of the spec: present, absent, present again in the newest.
C4_Witness ==
  /\ Indexed
  /\ NumStored = 3
  /\ \E C \in ClassNames : \E kind \in SymbolKinds : \E s \in SymbolNames :
       /\ \A j \in 1..3 : HasClass(j, C)
       /\ HasSymbol(3, C, kind, s)
       /\ ~HasSymbol(2, C, kind, s)
       /\ HasSymbol(1, C, kind, s)
       /\ UntilOf(Outline(3, C), kind)[s] = releases[2].name
       /\ SinceOf(Outline(1, C), kind)[s] = releases[1].name

\* C5: the until of symbol s of C in release R names the first release newer
\* than R in which s is not found in C (C without s, or C gone), and is
\* unresolved only if s is in C in every release from R to the newest.
C5_SymbolUntilContract ==
  Indexed =>
    \A k \in 1..NumStored : \A C \in ClassNames :
      \A kind \in SymbolKinds : \A s \in SymbolNames :
        HasSymbol(k, C, kind, s) =>
          IF SymbolGoneIn(k, C, kind, s) = {}
            THEN ~MapHas(UntilOf(Outline(k, C), kind), s)
            ELSE /\ MapHas(UntilOf(Outline(k, C), kind), s)
                 /\ UntilOf(Outline(k, C), kind)[s]
                      = releases[Newest(SymbolGoneIn(k, C, kind, s))].name

\* C6: C.until in R's entry is the name of the first release newer than R
\* from which C is absent, and '' exactly when C is in every release from R to
\* the newest.
C6_ClassUntilContract ==
  Indexed =>
    \A k \in 1..NumStored : \A C \in ClassNames :
      HasClass(k, C) =>
        /\ (Outline(k, C).until = "") <=> (ClassGoneIn(k, C) = {})
        /\ ClassGoneIn(k, C) # {} =>
             Outline(k, C).until = releases[Newest(ClassGoneIn(k, C))].name

\* A removal carried over a release in which the class is still present.
C6_Witness ==
  /\ Indexed
  /\ NumStored = 3
  /\ \E C \in ClassNames :
       /\ HasClass(3, C)
       /\ HasClass(2, C)
       /\ ~HasClass(1, C)
       /\ Outline(3, C).until = releases[1].name

(***************************************************************************)
(* Reading a rendered fragment.                                            *)
(***************************************************************************)
RECURSIVE NodesText(_)
\* The text of a node and of a list of nodes, in document order.
NodeText(node) ==
  IF node.nodeType = "text" THEN node.data ELSE NodesText(node.childNodes)

NodesText(nodes) ==
  IF nodes = <<>> THEN <<>> ELSE NodeText(Head(nodes)) \o NodesText(Tail(nodes))

RECURSIVE TokensText(_)
TokensText(toks) ==
  IF toks = <<>> THEN <<>> ELSE Head(toks).text \o TokensText(Tail(toks))

IsHighlight(node) == node.nodeType = "element" /\ node.tagName = "search-highlight"

\* The global offset of the first character of token k (1-based).
TokenStart(k) == TextLength(SubSeq(tokens, 1, k - 1))

\* Character p (0-based) of token k is matched.
InMatch(k, p) == (TokenStart(k) + p) \in matches

\* The offset inside its token at which run r of runs starts.
RunStart(runs, r) == Len(NodesText(SubSeq(runs, 1, r - 1)))

Rendered == pc = "rendered"

\* C7: the texts of all nodes of the returned fragment, concatenated in
\* document order, are the concatenation of the tokens' texts, whatever the
\* matched offsets.
C7_RoundTrip ==
  /\ NodesText(fragment) = TokensText(SubSeq(tokens, 1, t))
  /\ Rendered => NodesText(fragment) = TokensText(tokens)

\* Two tokens, matches in and out of the range, and a highlight in the output.
C7_Witness ==
  /\ Rendered
  /\ Len(tokens) = 2
  /\ -1 \in matches
  /\ TextLength(tokens) \in matches
  /\ \E g \in 0..(TextLength(tokens) - 1) : g \in matches
  /\ \E g \in 0..(TextLength(tokens) - 1) : g \notin matches
  /\ \E k \in 1..Len(fragment) :
       IsHighlight(fragment[k]) \/ \E c \in 1..Len(fragment[k].childNodes) :
                                     IsHighlight(fragment[k].childNodes[c])

\* C8: the child runs of the node built for a token are non-empty and
\* alternate between text nodes and search-highlight nodes, and two matched
\* offsets that are consecutive and in the same token are in one
\* search-highlight node.
C8_RunsAlternate ==
  t >= 1 =>
    LET runs == result.childNodes
        text == tokens[t].text
    IN /\ \A r \in 1..Len(runs) :
            /\ NodeText(runs[r]) # <<>>
            /\ runs[r].nodeType = "text" \/ IsHighlight(runs[r])
            /\ r > 1 => IsHighlight(runs[r]) # IsHighlight(runs[r - 1])
       /\ \A p \in 0..(Len(text) - 2) :
            (InMatch(t, p) /\ InMatch(t, p + 1)) =>
              \E r \in 1..Len(runs) :
                /\ IsHighlight(runs[r])
                /\ RunStart(runs, r) <= p
                /\ p + 1 < RunStart(runs, r) + Len(NodeText(runs[r]))

\* The second token's node holds a highlight of two characters and a plain run.
C8_Witness ==
  /\ t = 2
  /\ Len(result.childNodes) = 2
  /\ \E r \in 1..2 :
       IsHighlight(result.childNodes[r]) /\ Len(NodeText(result.childNodes[r])) = 2
  /\ \E p \in 0..1 : InMatch(2, p) /\ InMatch(2, p + 1)

\* The number of maximal runs of token k, the number of top-level nodes it
\* contributes, and these nodes.
NumRuns(k) ==
  IF tokens[k].text = <<>> THEN 0
  ELSE 1 + Cardinality({p \in 1..(Len(tokens[k].text) - 1) : InMatch(k, p) # InMatch(k, p - 1)})

TopCount(k) == IF tokens[k].tagName # "" THEN 1 ELSE NumRuns(k)

RECURSIVE PieceStart(_)
PieceStart(k) == IF k = 1 THEN 0 ELSE PieceStart(k - 1) + TopCount(k - 1)

Piece(k) == SubSeq(fragment, PieceStart(k) + 1, PieceStart(k) + TopCount(k))

PieceRuns(k) == IF tokens[k].tagName # "" THEN Piece(k)[1].childNodes ELSE Piece(k)

\* The length of the longest matched prefix of token k.
MatchedPrefix(k) ==
  CHOOSE n \in 0..Len(tokens[k].text) :
    /\ \A p \in 0..(n - 1) : InMatch(k, p)
    /\ n = Len(tokens[k].text) \/ ~InMatch(k, n)

\* C9 as claimed: with a non-empty match set there is exactly one top-level
\* node per token, in token order.
C9_OneNodePerToken ==
  (Rendered /\ matches # {}) =>
    /\ Len(fragment) = Len(tokens)
    /\ \A k \in 1..Len(tokens) : NodeText(fragment[k]) = tokens[k].text

\* C9 as amended: with a non-empty match set a token with a tagName gives
\* exactly one top-level node, an element of that tagName, and a token without
\* tagName gives its runs as top-level nodes, all in token order; the nodes of
\* a token hold that token's text, so no search-highlight node holds
\* characters of two tokens; and a match run that goes on across a token
\* boundary ends the first token with a highlight run and starts the next
\* with another one, of the matched prefix of that token.
C9_TokensIndependent ==
  (Rendered /\ matches # {}) =>
    /\ Len(fragment) = PieceStart(Len(tokens) + 1)
    /\ \A k \in 1..Len(tokens) :
         /\ tokens[k].tagName # "" =>
              /\ Piece(k)[1].nodeType = "element"
              /\ Piece(k)[1].tagName = tokens[k].tagName
         /\ NodesText(PieceRuns(k)) = tokens[k].text
         /\ \A r \in 1..Len(PieceRuns(k)) :
              PieceRuns(k)[r].nodeType = "text" \/ IsHighlight(PieceRuns(k)[r])
    /\ \A k \in 1..(Len(tokens) - 1) :
         (/\ tokens[k].text # <<>>
          /\ tokens[k + 1].text # <<>>
          /\ InMatch(k, Len(tokens[k].text) - 1)
          /\ InMatch(k + 1, 0))
         =>
         /\ IsHighlight(PieceRuns(k)[Len(PieceRuns(k))])
         /\ IsHighlight(PieceRuns(k + 1)[1])
         /\ Len(NodeText(PieceRuns(k + 1)[1])) = MatchedPrefix(k + 1)

\* The spec's scenario: the first token all matched, and the match run ends
\* after the first character of the second token; both tokens have a tagName.
C9_Witness ==
  /\ Rendered
  /\ Len(tokens) = 2
  /\ tokens[1].tagName # ""
  /\ tokens[2].tagName # ""
  /\ tokens[1].text # <<>>
  /\ matches = 0..Len(tokens[1].text)
  /\ Len(fragment) = 2
  /\ Len(fragment[1].childNodes) = 1
  /\ IsHighlight(fragment[1].childNodes[1])
  /\ Len(fragment[2].childNodes) = 2
  /\ IsHighlight(fragment[2].childNodes[1])
  /\ Len(NodeText(fragment[2].childNodes[1])) = 1
  /\ fragment[2].childNodes[2].nodeType = "text"

(***************************************************************************)
(* Reading the search index.                                               *)
(***************************************************************************)
SearchIndexed == pc = "indexed"

\* The position of a class in api.classes and of a name in a list of names.
ClassIndex(className) == CHOOSE c \in 1..Len(api) : api[c].name = className

NameIndex(names, name) == CHOOSE k \in 1..Len(names) : names[k] = name

KindRank(kind) ==
  CASE kind = "class" -> 0 [] kind = "event" -> 1 [] kind = "ns" -> 2 [] kind = "method" -> 3

MembersOf(apiClass, kind) ==
  CASE kind = "event" -> apiClass.events
    [] kind = "ns" -> apiClass.namespaces
    [] kind = "method" -> apiClass.methods
    [] kind = "class" -> <<apiClass.name>>

\* The API entries of the version.
ApiEntries ==
  UNION {{ClassEntry(api[c])}
         \cup {MemberEntry("event", api[c], api[c].events[k]) : k \in 1..Len(api[c].events)}
         \cup {MemberEntry("ns", api[c], api[c].namespaces[k]) : k \in 1..Len(api[c].namespaces)}
         \cup {MemberEntry("method", api[c], api[c].methods[k]) : k \in 1..Len(api[c].methods)}
         : c \in 1..Len(api)}

\* Item a comes before item b in the order of the contract.
ContractOrder(a, b) ==
  LET ca == ClassIndex(a.apiEntry.apiClass)
      cb == ClassIndex(b.apiEntry.apiClass)
      ra == KindRank(a.apiEntry.kind)
      rb == KindRank(b.apiEntry.kind)
  IN \/ ca < cb
     \/ ca = cb /\ ra < rb
     \/ /\ ca = cb
        /\ ra = rb
        /\ NameIndex(MembersOf(api[ca], a.apiEntry.kind), a.apiEntry.name)
             < NameIndex(MembersOf(api[cb], b.apiEntry.kind), b.apiEntry.name)

\* C10: searchItems() holds exactly one item per class and per event,
\* namespace and method of each class, no others and no duplicates, class by
\* class in api.classes order and within a class: the class, its events, its
\* namespaces, its methods, each group in the class's own order.
C10_SearchIndexOrder ==
  SearchIndexed =>
    /\ {searchItems[k].apiEntry : k \in 1..Len(searchItems)} = ApiEntries
    /\ Len(searchItems) = Cardinality(ApiEntries)
    /\ \A a, b \in 1..Len(searchItems) :
         a < b => ContractOrder(searchItems[a], searchItems[b])

\* Two classes; the first has two events, a namespace and two methods.
C10_Witness ==
  /\ SearchIndexed
  /\ Len(api) = 2
  /\ Len(api[1].events) = 2
  /\ Len(api[1].namespaces) = 1
  /\ Len(api[1].methods) = 2
  /\ Len(api[2].methods) = 2
  /\ Len(searchItems) >= 9

(***************************************************************************)
(* The text and the title tokens of a search item.                         *)
(***************************************************************************)
\* The lower-cased name of the class an API entry belongs to.
LoweredClassName(apiEntry) == Chars(LoweredName([name |-> apiEntry.apiClass]))

\* The text the contract gives an item of each kind.
CanonicalText(apiEntry) ==
  CASE apiEntry.kind = "class" -> Chars(apiEntry.name)
    [] apiEntry.kind = "method" ->
         LoweredClassName(apiEntry) \o <<".">> \o Chars(apiEntry.name)
           \o <<"(">> \o Chars(MethodArgs(apiEntry.name)) \o <<")">>
    [] apiEntry.kind = "event" ->
         LoweredClassName(apiEntry) \o <<".", "o", "n", "(", "'">>
           \o Chars(apiEntry.name) \o <<"'", ")">>
    [] apiEntry.kind = "ns" ->
         LoweredClassName(apiEntry) \o <<".">> \o Chars(apiEntry.name)

ItemsOfKind(kind) == {k \in 1..Len(searchItems) : searchItems[k].apiEntry.kind = kind}

\* C11: the text of a search item is the class name alone for a class,
\* loweredClassName.methodName(args) for a method,
\* loweredClassName.on('eventName') for an event and
\* loweredClassName.namespaceName for a namespace.
C11_CanonicalText ==
  \A k \in 1..Len(searchItems) :
    searchItems[k].text = CanonicalText(searchItems[k].apiEntry)

\* One item of every kind is indexed, one of them a method with arguments.
C11_Witness ==
  /\ SearchIndexed
  /\ \A kind \in {"class", "event", "ns", "method"} : ItemsOfKind(kind) # {}
  /\ \E k \in ItemsOfKind("method") : MethodArgs(searchItems[k].apiEntry.name) # ""
  /\ \E k \in ItemsOfKind("event") :
       searchItems[k].text = <<"p", "a", "g", "e", ".", "o", "n", "(", "'", "l", "o", "a", "d", "'", ")">>

\* C16: the tokens an item's title renderer passes to
\* renderTokensWithMatches concatenate, in order and with nothing between
\* them, to the item's text; an event has the three tokens "cls.on(",
\* "'name'" and ")".
C16_TokensSpellText ==
  \A k \in 1..Len(searchItems) :
    /\ TokensText(searchItems[k].titleTokens) = searchItems[k].text
    /\ searchItems[k].apiEntry.kind = "event" =>
         /\ Len(searchItems[k].titleTokens) = 3
         /\ searchItems[k].titleTokens[1].text = LoweredClassName(searchItems[k].apiEntry) \o <<".", "o", "n", "(">>
         /\ searchItems[k].titleTokens[2].text = <<"'">> \o Chars(searchItems[k].apiEntry.name) \o <<"'">>
         /\ searchItems[k].titleTokens[3].text = <<")">>

\* An event and a method with arguments are indexed with their tokens.
C16_Witness ==
  /\ SearchIndexed
  /\ \E k \in ItemsOfKind("event") : Len(searchItems[k].titleTokens) = 3
  /\ \E k \in ItemsOfKind("method") :
       /\ Len(searchItems[k].titleTokens) = 2
       /\ searchItems[k].titleTokens[2].text = <<"g", "o", "t", "o", "(", "u", "r", "l", ")">>
  /\ \E k \in ItemsOfKind("ns") : Len(searchItems[k].titleTokens) = 2
  /\ \E k \in ItemsOfKind("class") : Len(searchItems[k].titleTokens) = 1

(***************************************************************************)
(* Headings outside any class.                                             *)
(***************************************************************************)
\* An event, method or namespace heading comes before any class heading.
OrphanHeading(titles) ==
  \E j \in 1..Len(titles) :
    /\ titles[j].kind \in SymbolKinds
    /\ \A c \in 1..(j - 1) : titles[c].kind # "class"

\* No outline of any release has been touched by a propagation phase.
NothingPropagated ==
  \A k \in 1..NumStored : \A C \in DOMAIN releases[k].classesLifespan :
    /\ releases[k].classesLifespan[C].since = releases[k].name
    /\ releases[k].classesLifespan[C].until = ""

\* C12: when a release has an event, method or namespace heading before any
\* class heading, _initializeAPILifespan fails with an error at that
\* release: the build loop never gets past the release, nothing is recorded
\* for it, and the since and until phases never run.
C12_OrphanHeadingFails ==
  /\ \A k \in 1..NumStored :
       OrphanHeading(releases[k].apiTitles) =>
         /\ pc \in {"build", "threw"}
         /\ i < k
         /\ releases[k].classesLifespan = EmptyMap
  /\ pc = "threw" => OrphanHeading(releases[i + 1].apiTitles) /\ NothingPropagated

\* The second of three releases has such a heading: the first release was
\* scanned, the scan of the second one threw, the third was never scanned.
C12_Witness ==
  /\ pc = "threw"
  /\ NumStored = 3
  /\ i = 1
  /\ DOMAIN releases[1].classesLifespan = {"Page", "Frame"}
  /\ HasClass(3, "Page")
  /\ releases[3].classesLifespan = EmptyMap

(***************************************************************************)
(* Matches outside the text, exact highlighting, and the short circuit.    *)
(***************************************************************************)
\* The matched offsets that address a character of the text.
ValidMatches == matches \cap (0..(TextLength(tokens) - 1))

\* A list of nodes without its empty text nodes.
WithoutEmptyText(nodes) ==
  SelectSeq(nodes, LAMBDA n : ~(n.nodeType = "text" /\ n.data = <<>>))

\* C13 as claimed: with matches below 0 or at or above the length of the
\* text, the output is that of the call with the matches inside the text.
C13_OutOfRangeIgnored ==
  Rendered => fragment = RenderTokensWithMatches(ValidMatches, tokens)

\* C13, amended: with matches below 0 or at or above the length of the text,
\* the output is that of the call with the matches inside the text, except
\* that, when no match is inside the text, the empty text nodes that call
\* gives tokens without tag and without text are missing.
C13_OutOfRangeIgnoredButEmptyText ==
  Rendered =>
    fragment = IF matches # {} /\ ValidMatches = {}
                 THEN WithoutEmptyText(RenderTokensWithMatches({}, tokens))
                 ELSE RenderTokensWithMatches(ValidMatches, tokens)

\* Matches below, inside and above the text; the last character is not
\* matched although the offset after it is.
C13_Witness ==
  /\ Rendered
  /\ Len(tokens) = 2
  /\ -1 \in matches
  /\ TextLength(tokens) \in matches
  /\ TextLength(tokens) - 1 \notin matches
  /\ ValidMatches # {}
  /\ Len(tokens[2].text) > 0
  /\ \E k \in 1..Len(fragment) : \E c \in 1..Len(fragment[k].childNodes) :
       IsHighlight(fragment[k].childNodes[c])

RECURSIVE NodesMarks(_, _)
\* The characters of a node, and of a list of nodes, in document order,
\* each with whether it lies inside a search-highlight node.
NodeMarks(node, inside) ==
  IF node.nodeType = "text"
    THEN [k \in 1..Len(node.data) |-> [char |-> node.data[k], highlight |-> inside]]
    ELSE NodesMarks(node.childNodes, inside \/ IsHighlight(node))

NodesMarks(nodes, inside) ==
  IF nodes = <<>> THEN <<>>
  ELSE NodeMarks(Head(nodes), inside) \o NodesMarks(Tail(nodes), inside)

\* C14: with a non-empty match set, the character at global offset g of the
\* concatenated token texts lies inside a search-highlight node exactly
\* when g is in the match set; this includes the first and last character
\* of every token and the tokens after an empty token.
C14_ExactHighlighting ==
  matches # {} =>
    LET marks == NodesMarks(fragment, FALSE)
        text == TokensText(SubSeq(tokens, 1, t))
    IN /\ Len(marks) = Len(text)
       /\ \A g \in 0..(Len(text) - 1) :
            /\ marks[g + 1].char = text[g + 1]
            /\ marks[g + 1].highlight <=> g \in matches

\* After an empty token, a token whose first and last characters are
\* matched and whose middle character is not.
C14_Witness ==
  /\ Rendered
  /\ Len(tokens) = 2
  /\ tokens[1].text = <<>>
  /\ tokens[2].text = <<"c", "d", "e">>
  /\ matches = {0, 2}
  /\ NodesMarks(fragment, FALSE)[1].highlight
  /\ ~NodesMarks(fragment, FALSE)[2].highlight
  /\ NodesMarks(fragment, FALSE)[3].highlight

\* With no matches, token k gives the k-th node: an element with the
\* token's tag, or a bare text node when the token has none, that holds the
\* token's text and no search-highlight node.
PlainOutput ==
  /\ Len(fragment) = t
  /\ \A k \in 1..t :
       /\ fragment[k].nodeType = IF tokens[k].tagName # "" THEN "element" ELSE "text"
       /\ fragment[k].tagName = tokens[k].tagName
       /\ NodeText(fragment[k]) = tokens[k].text
       /\ \A m \in 1..Len(NodeMarks(fragment[k], FALSE)) :
            ~NodeMarks(fragment[k], FALSE)[m].highlight

\* The match sets that select no character of the text.
SelectNothing == SUBSET {-1, TextLength(tokens)}

\* C15 as claimed: the output of the short circuit is the output the
\* scanning path gives for a match set that selects no character.
C15_ShortCircuitIsScan ==
  Rendered /\ matches = {} =>
    /\ PlainOutput
    /\ \A m \in SelectNothing : fragment = RenderScanFrom(tokens, 1, 0, m, <<>>)

\* C15, amended: with no matches every token gives one node with its tag
\* (a bare text node without tag) holding its text and no search-highlight
\* node; the scanning path, for a match set that selects no character,
\* gives the same nodes except the empty text nodes of tokens without tag
\* and without text.
C15_ShortCircuitIsScanButEmptyText ==
  matches = {} =>
    /\ PlainOutput
    /\ Rendered =>
         \A m \in SelectNothing :
           WithoutEmptyText(fragment) = RenderScanFrom(tokens, 1, 0, m, <<>>)

\* No matches; a token with a tag and one without, both with text.
C15_Witness ==
  /\ Rendered
  /\ matches = {}
  /\ Len(tokens) = 2
  /\ tokens[1].tagName # "" /\ tokens[1].text # <<>>
  /\ tokens[2].tagName = "" /\ tokens[2].text # <<>>
  /\ Len(fragment) = 2

(***************************************************************************)
(* The outcome of the build loop.                                          *)
(***************************************************************************)
\* What the build loop leaves in release k.
BuildPostcondition(k) ==
  /\ DOMAIN releases[k].classesLifespan = {C \in ClassNames : HasClass(k, C)}
  /\ \A C \in DOMAIN releases[k].classesLifespan :
       /\ Outline(k, C).name = C
       /\ Outline(k, C).since = releases[k].name
       /\ Outline(k, C).until = ""
       /\ \A kind \in SymbolKinds :
            /\ DOMAIN SinceOf(Outline(k, C), kind) =
                 {s \in SymbolNames : HasSymbol(k, C, kind, s)}
            /\ \A s \in DOMAIN SinceOf(Outline(k, C), kind) :
                 SinceOf(Outline(k, C), kind)[s] = releases[k].name
            /\ UntilOf(Outline(k, C), kind) = EmptyMap

\* The build loop is over and no propagation step has been taken.
BuildJustDone ==
  \/ pc = "since" /\ i = NumStored - 2
  \/ pc = "done" /\ NumStored = 1

\* C17: after the build loop and before any propagation, the
\* classesLifespan of every release has one entry per class heading of the
\* release, with since the release's name and until '', with every event,
\* method and namespace heading in the Since map of the class heading it
\* follows, valued the release's name, and with empty Until maps.  The same
\* holds of every release the loop has already handled.
C17_BuildPostcondition ==
  /\ pc = "build" => \A k \in 1..i : BuildPostcondition(k)
  /\ BuildJustDone => \A k \in 1..NumStored : BuildPostcondition(k)

\* Three releases are built; the newest has class Page with an event and a
\* method, stored when the heading of class Frame is met, and class Frame,
\* stored at the end of the scan.
C17_Witness ==
  /\ pc = "since"
  /\ NumStored = 3
  /\ i = 1
  /\ DOMAIN releases[1].classesLifespan = {"Page", "Frame"}
  /\ DOMAIN releases[1].classesLifespan["Page"].eventsSince = {"load"}
  /\ DOMAIN releases[1].classesLifespan["Page"].methodsSince = {"close"}
  /\ DOMAIN releases[1].classesLifespan["Frame"].namespacesSince = {"mouse"}
  /\ releases[2].classesLifespan = EmptyMap
  /\ DOMAIN releases[3].classesLifespan = {"Page"}

(***************************************************************************)
(* What the propagation phases leave alone.                                *)
(***************************************************************************)
\* A step keeps the releases, their order and names, and the class entries
\* of each.
SameEntries ==
  /\ Len(releases') = Len(releases)
  /\ \A k \in 1..NumStored :
       /\ releases'[k].name = releases[k].name
       /\ DOMAIN releases'[k].classesLifespan = DOMAIN releases[k].classesLifespan
       /\ \A C \in DOMAIN releases[k].classesLifespan :
            releases'[k].classesLifespan[C].name = Outline(k, C).name

\* A step keeps the keys of every Since map, every until and every Until map.
SincePhaseFrame ==
  \A k \in 1..NumStored : \A C \in DOMAIN releases[k].classesLifespan :
    LET old == Outline(k, C)
        new == releases'[k].classesLifespan[C]
    IN /\ new.until = old.until
       /\ \A kind \in SymbolKinds :
            /\ DOMAIN SinceOf(new, kind) = DOMAIN SinceOf(old, kind)
            /\ UntilOf(new, kind) = UntilOf(old, kind)

\* A step keeps every since and every Since map.
UntilPhaseFrame ==
  \A k \in 1..NumStored : \A C \in DOMAIN releases[k].classesLifespan :
    LET old == Outline(k, C)
        new == releases'[k].classesLifespan[C]
    IN /\ new.since = old.since
       /\ \A kind \in SymbolKinds : SinceOf(new, kind) = SinceOf(old, kind)

\* C18: a step of the since phase changes only the class since fields and
\* the values of keys the Since maps already have: it adds and removes
\* no Since key and leaves every until and Until map alone.  A step of the until
\* phase leaves every since and Since map alone.  No step of either phase
\* adds or removes a class entry or reorders the releases.
C18_PhaseFrames ==
  [][/\ pc = "since" => SameEntries /\ SincePhaseFrame
     /\ pc = "until" => SameEntries /\ UntilPhaseFrame]_vars

\* Both phases have run over three releases: a since was carried to the
\* newest release, an until was recorded in the oldest, and the middle
\* release has an event the newest one lacks and was not given.
C18_Witness ==
  /\ Indexed
  /\ NumStored = 3
  /\ HasClass(1, "Page") /\ HasClass(2, "Page") /\ HasClass(3, "Page")
  /\ Outline(1, "Page").since = releases[3].name
  /\ HasSymbol(2, "Page", "event", "load")
  /\ ~HasSymbol(1, "Page", "event", "load")
  /\ ~MapHas(Outline(1, "Page").eventsSince, "load")
  /\ MapHas(Outline(3, "Page").eventsUntil, "load")
  /\ MapHas(Outline(2, "Page").methodsSince, "close")
  /\ Outline(2, "Page").methodsSince["close"] = releases[3].name

(***************************************************************************)
(* A class that is gone from the adjacent newer release.                   *)
(***************************************************************************)
\* Class C is in release k and not in release k - 1, the adjacent newer one.
ClassRemovedAfter(k, C) == k >= 2 /\ HasClass(k, C) /\ ~HasClass(k - 1, C)

\* The until loop has handled release k (as this._releases[i + 1]).
UntilVisited(k) == Indexed \/ (pc = "until" /\ i > k - 2)

\* C19: when class C is in release R and not in the adjacent newer release
\* R_next, the until phase sets until of C's entry in R to R_next's name,
\* and after indexing every entry of that entry's eventsUntil, methodsUntil
\* and namespacesUntil is R_next's name.
C19_ClassRemoval ==
  \A k \in 2..NumStored : \A C \in ClassNames :
    ClassRemovedAfter(k, C) =>
      /\ UntilVisited(k) => Outline(k, C).until = releases[k - 1].name
      /\ Indexed =>
           \A kind \in SymbolKinds : \A s \in DOMAIN UntilOf(Outline(k, C), kind) :
             UntilOf(Outline(k, C), kind)[s] = releases[k - 1].name

\* Class Page, with an event and a method, is in the oldest of three
\* releases and not in the middle one; class Frame is in the middle one and
\* not in the newest.
C19_Witness ==
  /\ Indexed
  /\ NumStored = 3
  /\ ClassRemovedAfter(3, "Page")
  /\ ClassRemovedAfter(2, "Frame")
  /\ HasSymbol(3, "Page", "event", "load")
  /\ HasSymbol(3, "Page", "method", "close")
  /\ Outline(3, "Page").until = releases[2].name
  /\ Outline(2, "Frame").until = releases[1].name

(***************************************************************************)
(* fetchReleaseAndReadme: the releases array from the tag names GitHub     *)
(* lists to the array the function returns.  A name is the sequence of its *)
(* characters.                                                             *)
(***************************************************************************)
Digits == <<"0", "1", "2", "3", "4", "5", "6", "7", "8", "9">>

IsDigit(char) == \E d \in 1..Len(Digits) : Digits[d] = char

DigitValue(char) == (CHOOSE d \in 1..Len(Digits) : Digits[d] = char) - 1

\* String.prototype.split('.') from character k (1-based) on.
RECURSIVE SplitDots(_, _, _, _)
SplitDots(chars, k, current, parts) ==
  IF k > Len(chars)
    THEN Append(parts, current)
    ELSE IF chars[k] = "."
      THEN SplitDots(chars, k + 1, <<>>, Append(parts, current))
      ELSE SplitDots(chars, k + 1, Append(current, chars[k]), parts)

RECURSIVE ParseDigits(_, _, _)
ParseDigits(chars, k, value) ==
  IF k > Len(chars) \/ ~IsDigit(chars[k])
    THEN value
    ELSE ParseDigits(chars, k + 1, value * 10 + DigitValue(chars[k]))

\* parseInt(e, 10) of a string without sign or leading blanks.
ParseInt(chars) ==
  IF chars = <<>> \/ ~IsDigit(chars[1]) THEN "NaN" ELSE ParseDigits(chars, 1, 0)

\* Lines 62-63.
Priority(name) ==
  LET parts == SplitDots(Substring(name, 1, Len(name)), 1, <<>>, <<>>)
      major == ParseInt(parts[1])
      minor == ParseInt(parts[2])
      patch == ParseInt(parts[3])
  IN major * 100 * 100 + minor * 100 + patch

\* Where a release goes in an array already sorted by (a, b) =>
\* b.priority - a.priority: behind every release whose priority is not lower.
InsertSorted(sorted, release) ==
  LET ahead == Cardinality({k \in 1..Len(sorted) : sorted[k].priority >= release.priority})
  IN SubSeq(sorted, 1, ahead) \o <<release>> \o SubSeq(sorted, ahead + 1, Len(sorted))

\* Line 66: Array.prototype.sort, which is stable.
RECURSIVE SortReleases(_, _, _)
SortReleases(array, k, sorted) ==
  IF k > Len(array)
    THEN sorted
    ELSE SortReleases(array, k + 1, InsertSorted(sorted, array[k]))

(***************************************************************************)
(* Inputs of fetchReleaseAndReadme: the tags of the releases GitHub lists, *)
(* in any order.                                                           *)
(***************************************************************************)
MaxTags == 2

RECURSIVE Decimal(_)
\* The decimal digits of a natural number.
Decimal(n) ==
  IF n < 10 THEN <<Digits[n + 1]>> ELSE Append(Decimal(n \div 10), Digits[(n % 10) + 1])

\* The tag of version <<major, minor, patch>>.
VersionName(v) ==
  <<"v">> \o Decimal(v[1]) \o <<".">> \o Decimal(v[2]) \o <<".">> \o Decimal(v[3])

TagVersions == {1, 2} \X {0, 2, 101} \X {0, 100}

\* Lists of different tags.
TagLists(n) ==
  {vs \in [1..n -> TagVersions] : \A a, b \in 1..n : a # b => vs[a] # vs[b]}

MainName == <<"m", "a", "i", "n">>

InitialVersion == <<0, 9, 0>>

(***************************************************************************)
(* The state machine of fetchReleaseAndReadme; i is the index of the loop  *)
(* of lines 61-64.                                                         *)
(***************************************************************************)
\* Lines 46-51: the array mapped from GitHub's answer.
InitFetch ==
  /\ \E n \in 0..MaxTags : \E vs \in TagLists(n) :
       releases = [k \in 1..n |-> [name |-> VersionName(vs[k])]]
  /\ pc = "push"
  /\ i = 0
  /\ RenderIdle
  /\ SearchIdle

\* Lines 53-58.
PushInitialRelease ==
  /\ pc = "push"
  /\ releases' = Append(releases, [name |-> VersionName(InitialVersion)])
  /\ pc' = "priority"
  /\ UNCHANGED <<i, renderVars, searchVars>>

\* Lines 61-64, one iteration.
SetPriority ==
  /\ pc = "priority"
  /\ i < Len(releases)
  /\ releases' = [releases EXCEPT ![i + 1] =
       [name |-> @.name, priority |-> Priority(@.name)]]
  /\ i' = i + 1
  /\ pc' = IF i' = Len(releases) THEN "sort" ELSE "priority"
  /\ UNCHANGED <<renderVars, searchVars>>

\* Line 66.
SortStep ==
  /\ pc = "sort"
  /\ releases' = SortReleases(releases, 1, <<>>)
  /\ pc' = "unshift"
  /\ UNCHANGED <<i, renderVars, searchVars>>

\* Lines 103-108.
UnshiftMain ==
  /\ pc = "unshift"
  /\ releases' = <<[name |-> MainName]>> \o releases
  /\ pc' = "returned"
  /\ UNCHANGED <<i, renderVars, searchVars>>

NextFetch == PushInitialRelease \/ SetPriority \/ SortStep \/ UnshiftMain

SpecFetch == InitFetch /\ [][NextFetch]_vars

(***************************************************************************)
(* The order of the returned releases.                                     *)
(***************************************************************************)
Returned == pc = "returned"

\* The version a tag names.
VersionOf(name) ==
  CHOOSE v \in TagVersions \cup {InitialVersion} : VersionName(v) = name

\* Version v is later than version w: (major, minor, patch) compared
\* lexicographically.
Later(v, w) ==
  \/ v[1] > w[1]
  \/ v[1] = w[1] /\ v[2] > w[2]
  \/ v[1] = w[1] /\ v[2] = w[2] /\ v[3] > w[3]

\* C20: fetchReleaseAndReadme returns 'main' at index 0, followed by the
\* tagged releases, v0.9.0 among them, each later than the one behind it;
\* and the priorities of two tagged releases compare as their (major, minor,
\* patch) do lexicographically.
C20_ReleaseOrder ==
  Returned =>
    /\ releases[1].name = MainName
    /\ \E k \in 2..NumStored : releases[k].name = VersionName(InitialVersion)
    /\ \A k \in 2..(NumStored - 1) :
         Later(VersionOf(releases[k].name), VersionOf(releases[k + 1].name))
    /\ \A a, b \in 2..NumStored :
         releases[a].priority > releases[b].priority
           <=> Later(VersionOf(releases[a].name), VersionOf(releases[b].name))

(***************************************************************************)
(* The entries of one class in different releases.                         *)
(***************************************************************************)
\* Class C is in every release from k to m.
SameRun(k, m, C) == \A j \in k..m : HasClass(j, C)

\* C21 as claimed: two releases that both contain class C hold the same
\* entry for it: the same since, until and symbol maps.
C21_OneEntryPerClass ==
  Indexed =>
    \A k, m \in 1..NumStored : \A C \in ClassNames :
      HasClass(k, C) /\ HasClass(m, C) => Outline(k, C) = Outline(m, C)

\* C21, amended: every release has an entry of its own for each of its
\* classes, whose Since maps have the keys of that release's headings; the
\* entries of class C in two releases agree on since and until when C is in
\* every release between the two.
C21_OneEntryPerReleaseAndClass ==
  Indexed =>
    \A k \in 1..NumStored : \A C \in ClassNames :
      HasClass(k, C) =>
        /\ \A kind \in SymbolKinds :
             DOMAIN SinceOf(Outline(k, C), kind) =
               {s \in SymbolNames : HasSymbol(k, C, kind, s)}
        /\ \A m \in k..NumStored :
             SameRun(k, m, C) =>
               /\ Outline(k, C).since = Outline(m, C).since
               /\ Outline(k, C).until = Outline(m, C).until

\* Class Page is in the two older of three releases and not in the newest:
\* its two entries agree on since and until and differ in their events.
C21_Witness ==
  /\ Indexed
  /\ NumStored = 3
  /\ ~HasClass(1, "Page")
  /\ SameRun(2, 3, "Page")
  /\ Outline(2, "Page").since = releases[3].name
  /\ Outline(3, "Page").until = releases[1].name
  /\ Outline(2, "Page").until = releases[1].name
  /\ DOMAIN Outline(2, "Page").eventsSince # DOMAIN Outline(3, "Page").eventsSince

(***************************************************************************)
(* The two propagation loops as functions of the array of releases.        *)
(***************************************************************************)
\* Lines 232-253: the since loop from index idx (0-based) down to 0.
RECURSIVE SincePhase(_, _)
SincePhase(array, idx) ==
  IF idx < 0
    THEN array
    ELSE SincePhase([array EXCEPT ![idx + 1] = SinceRelease(@, array[idx + 2])], idx - 1)

\* Lines 255-290: the until loop from index idx (0-based) up.
RECURSIVE UntilPhase(_, _)
UntilPhase(array, idx) ==
  IF idx >= Len(array) - 1
    THEN array
    ELSE UntilPhase([array EXCEPT ![idx + 2] = UntilRelease(@, array[idx + 1])], idx + 1)

\* The releases as the build loop leaves them.
Built ==
  [k \in 1..NumStored |->
     [releases[k] EXCEPT !.classesLifespan =
        ScanRelease(releases[k].apiTitles, releases[k].name).classesLifespan]]

\* The until loop run before the since loop.
UntilThenSince(array) == SincePhase(UntilPhase(array, 0), Len(array) - 2)

\* C22: run after the build loop, the until loop followed by the since loop
\* leaves in every release the classesLifespan that the implemented order,
\* the since loop followed by the until loop, leaves.
C22_PhasesCommute ==
  /\ BuildJustDone =>
       UntilThenSince(releases) = UntilPhase(SincePhase(releases, NumStored - 2), 0)
  /\ Indexed => releases = UntilThenSince(Built)

\* Three releases in which both loops have work: a since is carried to the
\* newest release and an event gone from the newest has its until in both
\* older releases.
C22_Witness ==
  /\ Indexed
  /\ NumStored = 3
  /\ SameRun(1, 3, "Page")
  /\ Outline(1, "Page").since = releases[3].name
  /\ MapHas(Outline(1, "Page").methodsSince, "close")
  /\ Outline(1, "Page").methodsSince["close"] = releases[2].name
  /\ MapHas(Outline(3, "Page").eventsUntil, "load")
  /\ MapHas(Outline(2, "Page").eventsUntil, "load")
  /\ Outline(2, "Page").eventsSince["load"] = releases[3].name

(***************************************************************************)
(* Until entries lie within the Since entries and name newer releases.     *)
(***************************************************************************)
\* Name is the name of a release newer than release k.
NamesNewer(name, k) == \E u \in 1..(k - 1) : releases[u].name = name

\* C23: in every state during and after _initializeAPILifespan, every key
\* of an entry's eventsUntil, methodsUntil or namespacesUntil is a key of
\* the entry's Since map of the same kind, every recorded until names a
\* release newer than the entry's own, and the entries of the newest
\* release have until '' and empty Until maps.
C23_UntilWithinSince ==
  \A k \in 1..NumStored : \A C \in DOMAIN releases[k].classesLifespan :
    /\ Outline(k, C).until # "" => NamesNewer(Outline(k, C).until, k)
    /\ \A kind \in SymbolKinds :
         /\ DOMAIN UntilOf(Outline(k, C), kind) \subseteq DOMAIN SinceOf(Outline(k, C), kind)
         /\ \A s \in DOMAIN UntilOf(Outline(k, C), kind) :
              NamesNewer(UntilOf(Outline(k, C), kind)[s], k)
         /\ k = 1 => UntilOf(Outline(k, C), kind) = EmptyMap
    /\ k = 1 => Outline(k, C).until = ""

\* After indexing three releases: the newest has a class with members, an
\* older entry has a class until and another a symbol until that was
\* copied from the release between.
C23_Witness ==
  /\ Indexed
  /\ NumStored = 3
  /\ SameRun(1, 3, "Page")
  /\ DOMAIN Outline(1, "Page").methodsSince = {"close"}
  /\ HasClass(2, "Frame") /\ ~HasClass(1, "Frame")
  /\ Outline(2, "Frame").until = releases[1].name
  /\ MapHas(Outline(3, "Page").eventsUntil, "load")
  /\ Outline(3, "Page").eventsUntil["load"] = releases[1].name
  /\ MapHas(Outline(2, "Page").eventsUntil, "load")
  /\ Outline(2, "Page").eventsUntil["load"] = releases[1].name

====
